---- MODULE Spec2Model ----
(***************************************************************************)
(* Review Gate of banana-vibe-blog: the deterministic AI-writing-pattern   *)
(* detector and scorer (skills/humanizer/skill.py) and the reviewer agent  *)
(* that merges their result with an external rubric judge                  *)
(* (agents/reviewer.py).                                                   *)
(*                                                                         *)
(* Conventions.  A Python dict is a TLA+ function whose DOMAIN is the set  *)
(* of keys present, so d.get(k, default) is Get(d, k, default).  A Python  *)
(* str that the code scans is a sequence of one-character strings.  The    *)
(* Python values True, False and None are the strings PyTrue, PyFalse and  *)
(* PyNone, because `a and b` returns an operand, not always a bool.        *)
(***************************************************************************)
EXTENDS Integers, Sequences, FiniteSets, TLC

VARIABLES
    state,      \* the pipeline's shared state dict that run() reads and writes
    pc,         \* position of the Gate: IDLE, PENDING, SCORING, APPROVED, REJECTED, REJECTED_EMPTY, RAISED
    locals,     \* locals of review() alive across the rubric call: document, ai_patterns, humanization_score
    response,   \* what self.llm.chat(...) did in this review
    result,     \* the dict review() returned in this review
    detectCalls,\* calls of detect_ai_patterns in this review
    llmCalls,   \* calls of self.llm.chat in this review
    path,       \* how this review's result was made: none, guard, scored, fallback
    call,       \* the last application of a pure function (specifications of pure functions)
    skills      \* skill_loader.py: the module global _skill_loader, the threads in get_skill_loader, one SkillLoader and the skill files

vars == <<state, pc, locals, response, result, detectCalls, llmCalls, path, call, skills>>

----------------------------------------------------------------------------
(* Python values and dicts *)

PyTrue == "True"
PyFalse == "False"
PyNone == "None"

EmptyDict == <<>>

Get(d, k, default) == IF k \in DOMAIN d THEN d[k] ELSE default

Put(d, k, v) == [x \in DOMAIN d \cup {k} |-> IF x = k THEN v ELSE d[x]]

Min(a, b) == IF a <= b THEN a ELSE b

Max(a, b) == IF a >= b THEN a ELSE b

\* int(a / b) for b > 0: Python's int() truncates toward zero.
TruncDiv(a, b) == IF a >= 0 THEN a \div b ELSE -((-a) \div b)

----------------------------------------------------------------------------
(* Text *)

UpperChars == <<"A","B","C","D","E","F","G","H","I","J","K","L","M",
                "N","O","P","Q","R","S","T","U","V","W","X","Y","Z">>

LowerChars == <<"a","b","c","d","e","f","g","h","i","j","k","l","m",
                "n","o","p","q","r","s","t","u","v","w","x","y","z">>

\* re.IGNORECASE on the ASCII letters.
Lower(c) ==
    IF \E i \in DOMAIN UpperChars : UpperChars[i] = c
    THEN LowerChars[CHOOSE i \in DOMAIN UpperChars : UpperChars[i] = c]
    ELSE c

Whitespace == {" ", "\n", "\t"}

RECURSIVE LStrip(_)
LStrip(s) == IF s # <<>> /\ Head(s) \in Whitespace THEN LStrip(Tail(s)) ELSE s

RECURSIVE RStrip(_)
RStrip(s) ==
    IF s # <<>> /\ s[Len(s)] \in Whitespace THEN RStrip(SubSeq(s, 1, Len(s) - 1)) ELSE s

\* str.strip()
Strip(s) == RStrip(LStrip(s))

\* text[start:end] with 0 <= start, end <= len(text)
Slice(text, start, end) == SubSeq(text, start + 1, end)

----------------------------------------------------------------------------
(* Pattern catalog.  The catalog of patterns.py holds 24 patterns; the     *)
(* model keeps nine of them, in the catalog's insertion order, each with   *)
(* its real severity and category and a few of its real keywords: two of   *)
(* severity high, two medium, five low, the four that have no keywords,    *)
(* and one keyword ("boasts") that two patterns share.                     *)

T_boasts == <<"b","o","a","s","t","s">>
T_rich == <<"r","i","c","h">>
T_key == <<"k","e","y">>
T_marks == <<"m","a","r","k","s">>
\* U+2014, one character, written by name.
EM_DASH == "U+2014"

T_emdash == <<EM_DASH>>
T_dashes == <<"-","-">>
T_may == <<"m","a","y">>
T_might == <<"m","i","g","h","t">>

ALL_PATTERNS == <<
    [pattern_id |-> "promotional_language", name |-> "promotional",
     category |-> "content", severity |-> "high", keywords |-> <<T_boasts, T_rich>>],
    [pattern_id |-> "ai_vocabulary", name |-> "ai vocabulary",
     category |-> "language", severity |-> "high", keywords |-> <<T_key>>],
    [pattern_id |-> "copula_avoidance", name |-> "copula avoidance",
     category |-> "language", severity |-> "medium", keywords |-> <<T_marks, T_boasts>>],
    [pattern_id |-> "rule_of_three", name |-> "rule of three",
     category |-> "language", severity |-> "low", keywords |-> <<>>],
    [pattern_id |-> "elegant_variation", name |-> "elegant variation",
     category |-> "language", severity |-> "low", keywords |-> <<>>],
    [pattern_id |-> "em_dash_overuse", name |-> "em dash",
     category |-> "style", severity |-> "low", keywords |-> <<T_emdash, T_dashes>>],
    [pattern_id |-> "inline_header_lists", name |-> "inline header lists",
     category |-> "style", severity |-> "low", keywords |-> <<>>],
    [pattern_id |-> "title_case_headings", name |-> "title case",
     category |-> "style", severity |-> "low", keywords |-> <<>>],
    [pattern_id |-> "excessive_hedging", name |-> "hedging",
     category |-> "filler", severity |-> "medium", keywords |-> <<T_may, T_might>>]
>>

----------------------------------------------------------------------------
(* detect_ai_patterns *)

\* A variant that ranks an unknown severity with "high".
severity_order_unknown_high(s) ==
    CASE s = "low" -> 0
      [] s = "medium" -> 1
      [] s = "high" -> 2
      [] OTHER -> 2

\* severity_order.get(s, 0)
severity_order(s) ==
    CASE s = "low" -> 0
      [] s = "medium" -> 1
      [] s = "high" -> 2
      [] OTHER -> 0

\* Whether the keyword matches at 0-based offset i, ignoring case.
MatchAt(text, keyword, i) ==
    /\ i + Len(keyword) <= Len(text)
    /\ \A j \in 1..Len(keyword) : Lower(text[i + j]) = Lower(keyword[j])

\* A variant that resumes one character after the start of a match, so
\* that overlapping occurrences are found too.
RECURSIVE finditer_overlapping(_, _, _)
finditer_overlapping(text, keyword, i) ==
    IF i + Len(keyword) > Len(text) THEN <<>>
    ELSE IF MatchAt(text, keyword, i)
         THEN <<i>> \o finditer_overlapping(text, keyword, i + 1)
         ELSE finditer_overlapping(text, keyword, i + 1)

\* re.compile(re.escape(keyword), re.IGNORECASE).finditer(text): the start
\* offsets of the matches, left to right; the scan resumes at the END of a
\* match, so matches never overlap.
RECURSIVE finditer(_, _, _)
finditer(text, keyword, i) ==
    IF i + Len(keyword) > Len(text) THEN <<>>
    ELSE IF MatchAt(text, keyword, i)
         THEN <<i>> \o finditer(text, keyword, i + Len(keyword))
         ELSE finditer(text, keyword, i + 1)

ContextChars == 30

\* A variant that keeps the window as it is cut.
MatchLocation_unstripped(text, keyword, pos) ==
    LET start == Max(0, pos - ContextChars)
        end == Min(Len(text), pos + Len(keyword) + ContextChars)
    IN  [keyword |-> keyword, position |-> pos,
         context |-> Slice(text, start, end)]

\* One location per match: keyword, position and the stripped context.
MatchLocation(text, keyword, pos) ==
    LET start == Max(0, pos - ContextChars)
        end == Min(Len(text), pos + Len(keyword) + ContextChars)
    IN  [keyword |-> keyword, position |-> pos,
         context |-> Strip(Slice(text, start, end))]

KeywordLocations(text, keyword) ==
    LET starts == finditer(text, keyword, 0)
    IN  [n \in 1..Len(starts) |-> MatchLocation(text, keyword, starts[n])]

\* A variant that scans the first keyword only.
PatternLocations_first_keyword(text, keywords) ==
    IF keywords = <<>> THEN <<>> ELSE KeywordLocations(text, Head(keywords))

\* The inner loop over the keywords of one pattern.
RECURSIVE PatternLocations(_, _)
PatternLocations(text, keywords) ==
    IF keywords = <<>> THEN <<>>
    ELSE KeywordLocations(text, Head(keywords)) \o PatternLocations(text, Tail(keywords))

MaxLocations == 5

\* A variant that counts the locations it keeps.
Detection_counts_kept(pattern_config, locations) ==
    [pattern_id |-> pattern_config.pattern_id,
     pattern_name |-> pattern_config.name,
     category |-> pattern_config.category,
     severity |-> pattern_config.severity,
     locations |-> SubSeq(locations, 1, Min(Len(locations), MaxLocations)),
     count |-> Min(Len(locations), MaxLocations)]

Detection(pattern_config, locations) ==
    [pattern_id |-> pattern_config.pattern_id,
     pattern_name |-> pattern_config.name,
     category |-> pattern_config.category,
     severity |-> pattern_config.severity,
     locations |-> SubSeq(locations, 1, Min(Len(locations), MaxLocations)),
     count |-> Len(locations)]

\* A variant that keeps the patterns of exactly the requested level.
RECURSIVE DetectLoop_exact_level(_, _, _)
DetectLoop_exact_level(text, min_severity_level, patterns) ==
    IF patterns = <<>> THEN <<>>
    ELSE LET p == Head(patterns)
             rest == DetectLoop_exact_level(text, min_severity_level, Tail(patterns))
             locations == PatternLocations(text, p.keywords)
         IN  IF severity_order(p.severity) # min_severity_level THEN rest
             ELSE IF p.keywords = <<>> THEN rest
             ELSE IF locations # <<>> THEN <<Detection(p, locations)>> \o rest
             ELSE rest

\* The loop over ALL_PATTERNS, in insertion order.
RECURSIVE DetectLoop(_, _, _)
DetectLoop(text, min_severity_level, patterns) ==
    IF patterns = <<>> THEN <<>>
    ELSE LET p == Head(patterns)
             rest == DetectLoop(text, min_severity_level, Tail(patterns))
             locations == PatternLocations(text, p.keywords)
         IN  IF severity_order(p.severity) < min_severity_level THEN rest
             ELSE IF p.keywords = <<>> THEN rest
             ELSE IF locations # <<>> THEN <<Detection(p, locations)>> \o rest
             ELSE rest

\* The sort key (-severity_order, -count), compared as Python compares tuples.
SortKeyLess(a, b) ==
    LET sa == -severity_order(a.severity)
        sb == -severity_order(b.severity)
    IN  \/ sa < sb
        \/ sa = sb /\ -a.count < -b.count

\* A variant that puts an element before the elements of equal key.
RECURSIVE InsertSorted_before_equals(_, _)
InsertSorted_before_equals(sorted, x) ==
    IF sorted = <<>> THEN <<x>>
    ELSE IF ~SortKeyLess(Head(sorted), x) THEN <<x>> \o sorted
    ELSE <<Head(sorted)>> \o InsertSorted_before_equals(Tail(sorted), x)

\* list.sort is stable: an element goes after every element whose key is
\* not greater than its own.
RECURSIVE InsertSorted(_, _)
InsertSorted(sorted, x) ==
    IF sorted = <<>> THEN <<x>>
    ELSE IF SortKeyLess(x, Head(sorted)) THEN <<x>> \o sorted
    ELSE <<Head(sorted)>> \o InsertSorted(Tail(sorted), x)

RECURSIVE StableSort(_)
StableSort(s) ==
    IF s = <<>> THEN <<>>
    ELSE InsertSorted(StableSort(SubSeq(s, 1, Len(s) - 1)), s[Len(s)])

detect_ai_patterns(text, min_severity) ==
    StableSort(DetectLoop(text, severity_order(min_severity), ALL_PATTERNS))

----------------------------------------------------------------------------
(* calculate_humanization_score *)

\* severity_weights.get(severity, 1.0), doubled so that 0.5 is an integer.
severity_weights2(severity) ==
    CASE severity = "low" -> 1
      [] severity = "medium" -> 2
      [] severity = "high" -> 4
      [] OTHER -> 2

CountCap == 5

FullScore == 20

\* A variant whose cap discards the counts above it.
RECURSIVE total_penalty2_drops_over_cap(_)
total_penalty2_drops_over_cap(detected_patterns) ==
    IF detected_patterns = <<>> THEN 0
    ELSE LET pattern == Head(detected_patterns)
             severity == Get(pattern, "severity", "low")
             count == Get(pattern, "count", 0)
         IN  severity_weights2(severity) * (IF count > CountCap THEN 0 ELSE count)
               + total_penalty2_drops_over_cap(Tail(detected_patterns))

\* Twice the total penalty of the loop.
RECURSIVE total_penalty2(_)
total_penalty2(detected_patterns) ==
    IF detected_patterns = <<>> THEN 0
    ELSE LET pattern == Head(detected_patterns)
             severity == Get(pattern, "severity", "low")
             count == Get(pattern, "count", 0)
         IN  severity_weights2(severity) * Min(count, CountCap)
               + total_penalty2(Tail(detected_patterns))

\* A variant that truncates each detection's penalty before adding it.
RECURSIVE truncated_penalties(_)
truncated_penalties(detected_patterns) ==
    IF detected_patterns = <<>> THEN 0
    ELSE TruncDiv(total_penalty2(<<Head(detected_patterns)>>), 2)
           + truncated_penalties(Tail(detected_patterns))

calculate_humanization_score_truncates_each(detected_patterns) ==
    IF detected_patterns = <<>> THEN FullScore
    ELSE Max(0, FullScore - truncated_penalties(detected_patterns))

calculate_humanization_score(detected_patterns) ==
    IF detected_patterns = <<>> THEN FullScore
    ELSE Max(0, FullScore - TruncDiv(total_penalty2(detected_patterns), 2))

----------------------------------------------------------------------------
(* ReviewerAgent._convert_patterns_to_issues *)

\* suggestions.get(category, <the default>): the table is keyed by category;
\* the model names each text by its key.
BaseSuggestion(category) ==
    IF category \in {"content", "language", "style", "communication", "filler"}
    THEN category
    ELSE "default"

\* The base suggestion, followed by the first location's context when the
\* pattern has a location with a non-empty context.
_get_humanization_suggestion(pattern) ==
    LET locations == Get(pattern, "locations", <<>>)
        context == IF locations # <<>> THEN Get(locations[1], "context", <<>>) ELSE <<>>
    IN  [base |-> BaseSuggestion(Get(pattern, "category", "")), example |-> context]

HumanizationIssue(pattern) ==
    [section_id |-> "",
     issue_type |-> "humanization",
     severity |-> Get(pattern, "severity", "medium"),
     description |-> <<Get(pattern, "pattern_name", ""), Get(pattern, "count", 0)>>,
     suggestion |-> _get_humanization_suggestion(pattern)]

RECURSIVE _convert_patterns_to_issues(_)
_convert_patterns_to_issues(ai_patterns) ==
    IF ai_patterns = <<>> THEN <<>>
    ELSE LET pattern == Head(ai_patterns)
             rest == _convert_patterns_to_issues(Tail(ai_patterns))
         IN  IF Get(pattern, "severity", PyNone) \notin {"medium", "high"} THEN rest
             ELSE <<HumanizationIssue(pattern)>> \o rest

----------------------------------------------------------------------------
(* The rubric judge's answers.  self.llm.chat either raises (a timeout is  *)
(* an exception too) or returns a string: text that is not JSON, JSON      *)
(* that is a list, or a JSON object, modelled as the dict json.loads       *)
(* makes of it.                                                            *)

\* A JSON number, and a JSON value of another type where a number belongs.
JInt(n) == [t |-> "int", v |-> n]

JStr == [t |-> "str", v |-> 0]

\* A JSON array, and null where an array belongs.
JList(items) == [t |-> "list", v |-> items]

JNull == [t |-> "null", v |-> <<>>]

\* An item of the issues array that is not an object.
NonDictItem == [python_type |-> "str"]

IsDict(item) == "python_type" \notin DOMAIN item

RubricHigh == [issue_type |-> "quality", severity |-> "high", description |-> "rubric-high"]

RubricMedium == [issue_type |-> "quality", severity |-> "medium", description |-> "rubric-medium"]

RubricNoSeverity == [issue_type |-> "quality", description |-> "rubric-unrated"]

\* Scores below, inside and above 0..100.
ScoreOptions == {JInt(-50), JInt(95), JInt(150)}

ApprovedOptions == {PyTrue, PyFalse}

IssuesOptions == {JList(<<RubricNoSeverity, RubricMedium>>), JList(<<RubricHigh>>)}

\* The objects with any subset of the keys score, approved and issues, each
\* value of the type the contract gives it.
TypedObjects ==
    LET withScore == {EmptyDict} \cup {Put(EmptyDict, "score", s) : s \in ScoreOptions}
        withApproved == withScore \cup
            {Put(d, "approved", a) : d \in withScore, a \in ApprovedOptions}
        withIssues == withApproved \cup
            {Put(d, "issues", i) : d \in withApproved, i \in IssuesOptions}
    IN  {Put(d, "summary", "rubric summary") : d \in withIssues}

GoodObject ==
    [score |-> JInt(95), approved |-> PyTrue, issues |-> JList(<<>>),
     summary |-> "rubric summary"]

\* Objects with one value of the wrong type or shape.
MistypedObjects ==
    {[GoodObject EXCEPT !.score = JStr],
     [GoodObject EXCEPT !.approved = PyNone],
     [GoodObject EXCEPT !.approved = PyNone, !.issues = JList(<<RubricHigh>>)],
     [GoodObject EXCEPT !.issues = JNull],
     [GoodObject EXCEPT !.issues = JList(<<NonDictItem>>)],
     [GoodObject EXCEPT !.issues = JList(<<RubricHigh, NonDictItem>>)]}

RubricObjects == TypedObjects \cup {GoodObject} \cup MistypedObjects

Responses ==
    {[kind |-> "raise"], [kind |-> "timeout"], [kind |-> "text"], [kind |-> "list"]}
      \cup {[kind |-> "object", body |-> d] : d \in RubricObjects}

NoResponse == [kind |-> "none"]

----------------------------------------------------------------------------
(* ReviewerAgent.review *)

DefaultBaseScore == 80

FallbackScore == 80

ApproveThreshold == 91

MaxShownPatterns == 5

\* round() of a / b for b > 0, halves to the even neighbour as Python rounds.
RoundDiv(a, b) ==
    LET q == a \div b
        r2 == 2 * (a - q * b)
    IN  IF r2 > b \/ (r2 = b /\ q % 2 = 1) THEN q + 1 ELSE q

\* Mutant of final_score: the quotient rounded instead of truncated.
final_score_rounded(base_score, humanization_score) ==
    Min(100, RoundDiv((base_score + humanization_score) * 100, 120))

\* min(100, int(total_score * 100 / 120))
final_score(base_score, humanization_score) ==
    Min(100, TruncDiv((base_score + humanization_score) * 100, 120))

\* Mutant of any_high: the comparison misses the severity "high".
RECURSIVE any_high_misses(_)
any_high_misses(issues) ==
    IF issues = <<>> THEN "false"
    ELSE IF ~IsDict(Head(issues)) THEN "raise"
    ELSE IF Get(Head(issues), "severity", PyNone) = "critical" THEN "true"
    ELSE any_high_misses(Tail(issues))

\* any(i.get("severity") == "high" for i in issues): "raise" when an item
\* that is not a dict is reached; any() stops at the first high issue.
RECURSIVE any_high(_)
any_high(issues) ==
    IF issues = <<>> THEN "false"
    ELSE IF ~IsDict(Head(issues)) THEN "raise"
    ELSE IF Get(Head(issues), "severity", PyNone) = "high" THEN "true"
    ELSE any_high(Tail(issues))

\* Mutant of PyAnd3: the threshold comparison is dropped.
PyAnd3_no_threshold(a, b, c) ==
    IF a # PyTrue THEN a
    ELSE IF ~b THEN PyFalse
    ELSE PyTrue

\* a and b and c, where a is a Python value and b, c are bools: the first
\* falsy operand, else the last.
PyAnd3(a, b, c) ==
    IF a # PyTrue THEN a
    ELSE IF ~b THEN PyFalse
    ELSE IF c THEN PyTrue ELSE PyFalse

Raised == [raised |-> TRUE]

Returned(value) == [raised |-> FALSE, value |-> value]

\* A variant of the try block that puts the humanization issues first.
TryBlock_humanization_first(resp, ai_patterns, humanization_score) ==
    IF resp.kind \in {"raise", "timeout"} THEN Raised          \* self.llm.chat raises
    ELSE IF resp.kind = "text" THEN Raised                       \* json.loads raises
    ELSE IF resp.kind = "list" THEN Raised                       \* a list has no .get
    ELSE
        LET r == resp.body
            issues0 == Get(r, "issues", JList(<<>>))
            base_score == Get(r, "score", JInt(DefaultBaseScore))
        IN  IF issues0.t # "list" THEN Raised                    \* None has no .extend
            ELSE IF base_score.t # "int" THEN Raised             \* str + int
            ELSE
                LET issues == _convert_patterns_to_issues(ai_patterns) \o issues0.v
                    score == final_score(base_score.v, humanization_score)
                    has_high_issue == any_high(issues)
                IN  IF has_high_issue = "raise" THEN Raised      \* a str has no .get
                    ELSE Returned(
                        [score |-> score,
                         approved |-> PyAnd3(Get(r, "approved", PyTrue),
                                             has_high_issue = "false",
                                             score >= ApproveThreshold),
                         issues |-> issues,
                         summary |-> Get(r, "summary", ""),
                         humanization_score |-> humanization_score,
                         ai_patterns |->
                             SubSeq(ai_patterns, 1, Min(Len(ai_patterns), MaxShownPatterns))])

\* The body of the try block, from self.llm.chat to the return.
TryBlock(resp, ai_patterns, humanization_score) ==
    IF resp.kind \in {"raise", "timeout"} THEN Raised          \* self.llm.chat raises
    ELSE IF resp.kind = "text" THEN Raised                       \* json.loads raises
    ELSE IF resp.kind = "list" THEN Raised                       \* a list has no .get
    ELSE
        LET r == resp.body
            issues0 == Get(r, "issues", JList(<<>>))
            base_score == Get(r, "score", JInt(DefaultBaseScore))
        IN  IF issues0.t # "list" THEN Raised                    \* None has no .extend
            ELSE IF base_score.t # "int" THEN Raised             \* str + int
            ELSE
                LET issues == issues0.v \o _convert_patterns_to_issues(ai_patterns)
                    score == final_score(base_score.v, humanization_score)
                    has_high_issue == any_high(issues)
                IN  IF has_high_issue = "raise" THEN Raised      \* a str has no .get
                    ELSE Returned(
                        [score |-> score,
                         approved |-> PyAnd3(Get(r, "approved", PyTrue),
                                             has_high_issue = "false",
                                             score >= ApproveThreshold),
                         issues |-> issues,
                         summary |-> Get(r, "summary", ""),
                         humanization_score |-> humanization_score,
                         ai_patterns |->
                             SubSeq(ai_patterns, 1, Min(Len(ai_patterns), MaxShownPatterns))])

\* The except branch: approve by default, keep the humanization results.
Fallback(ai_patterns, humanization_score) ==
    [score |-> FallbackScore,
     approved |-> PyTrue,
     issues |-> _convert_patterns_to_issues(ai_patterns),
     summary |-> "review done",
     humanization_score |-> humanization_score,
     ai_patterns |-> SubSeq(ai_patterns, 1, Min(Len(ai_patterns), MaxShownPatterns))]

\* review() from the rubric call on, given the detections made before it.
review(resp, ai_patterns, humanization_score) ==
    LET try == TryBlock(resp, ai_patterns, humanization_score)
    IN  IF try.raised THEN Fallback(ai_patterns, humanization_score) ELSE try.value

----------------------------------------------------------------------------
(* The caller's inputs *)

MaxSections == 2

S_clean == [id |-> "section_1", title |-> <<"T">>, content |-> <<"o","k">>]

S_promo == [id |-> "section_2", title |-> <<"T">>, content |-> <<"R","i","c","h">>]

\* A section without a title: section.get('title', '') is ''.
S_hedge == [id |-> "section_3", content |-> <<"m","a","y"," ","M","a","y">>]

SectionPool == <<S_clean, S_promo, S_hedge>>

\* The sections of the pool at the indices of ids, in the pool's order.
RECURSIVE Pick(_, _)
Pick(ids, i) ==
    IF i > Len(SectionPool) THEN <<>>
    ELSE (IF i \in ids THEN <<SectionPool[i]>> ELSE <<>>) \o Pick(ids, i + 1)

SectionLists ==
    {Pick(ids, 1) : ids \in {x \in SUBSET (1..Len(SectionPool)) : Cardinality(x) <= MaxSections}}

\* What the earlier pipeline stages leave in the keys run() reads: error
\* missing, empty or set; sections missing, empty or filled.
Inputs ==
    LET withError == {EmptyDict, Put(EmptyDict, "error", ""),
                      Put(EmptyDict, "error", "upstream failed")}
        withSections == withError \cup
            {Put(d, "sections", sl) : d \in withError, sl \in SectionLists}
    IN  {Put(d, "outline", "outline") : d \in withSections}

InputKeys == {"error", "sections", "outline"}

----------------------------------------------------------------------------
(* ReviewerAgent.run *)

\* f"## {title}\n\n{content}" for one section
DocumentPart(section) ==
    <<"#", "#", " ">> \o Get(section, "title", <<>>) \o <<"\n", "\n">>
        \o Get(section, "content", <<>>)

Separator == <<"\n", "\n", "-", "-", "-", "\n", "\n">>

\* "\n\n---\n\n".join(document_parts)
RECURSIVE AssembleDocument(_)
AssembleDocument(sections) ==
    IF sections = <<>> THEN <<>>
    ELSE IF Len(sections) = 1 THEN DocumentPart(sections[1])
    ELSE DocumentPart(sections[1]) \o Separator \o AssembleDocument(Tail(sections))

\* if state.get("error"): a missing or empty error is falsy.
HasUpstreamError(st) == Get(st, "error", "") # ""

\* if not sections, with sections = state.get("sections", [])
NoSections(st) == Get(st, "sections", <<>>) = <<>>

\* Mutant of ShortCircuits: the check of the upstream error is missing.
ShortCircuits_sections_only(st) == NoSections(st)

\* The entry guard of run(): either early return.
ShortCircuits(st) == HasUpstreamError(st) \/ NoSections(st)

\* A variant that also resets what an earlier review left.
WriteRejectedEmpty_resets_humanization(st) ==
    Put(Put(Put(Put(Put(st, "review_score", 0), "review_approved", PyFalse),
                "review_issues", <<>>), "humanization_score", 0), "ai_patterns", <<>>)

\* The three keys both early returns write.
WriteRejectedEmpty(st) ==
    Put(Put(Put(st, "review_score", 0), "review_approved", PyFalse), "review_issues", <<>>)

\* The five keys run() writes from the result of review().
WriteResult(st, res) ==
    LET s1 == Put(st, "review_score", Get(res, "score", 80))
        s2 == Put(s1, "review_approved", Get(res, "approved", PyTrue))
        s3 == Put(s2, "review_issues", Get(res, "issues", <<>>))
        s4 == Put(s3, "humanization_score", Get(res, "humanization_score", 0))
    IN  Put(s4, "ai_patterns", Get(res, "ai_patterns", <<>>))

\* The logging loop over result["issues"] calls issue.get on every item.
LoggingRaises(res) ==
    \E n \in DOMAIN Get(res, "issues", <<>>) : ~IsDict(res["issues"][n])

NoLocals == EmptyDict

NoResult == EmptyDict

NoCall == [op |-> "none"]

\* skill_loader.py is not in use.
NoSkills == [use |-> "none"]

\* Lines 46-49 of review(): the detection and its score.
DetectAndScore(document) ==
    LET ai_patterns == detect_ai_patterns(document, "medium")
    IN  [document |-> document,
         ai_patterns |-> ai_patterns,
         humanization_score |-> calculate_humanization_score(ai_patterns)]

Init ==
    /\ state = EmptyDict
    /\ pc = "IDLE"
    /\ locals = NoLocals
    /\ response = NoResponse
    /\ result = NoResult
    /\ detectCalls = 0
    /\ llmCalls = 0
    /\ path = "none"
    /\ call = NoCall
    /\ skills = NoSkills

\* The pipeline fills the shared state and calls run(); it may do so again
\* after a review has returned (the revise-and-review loop).
Submit(input) ==
    /\ pc \in {"IDLE", "APPROVED", "REJECTED", "REJECTED_EMPTY"}
    /\ state' = [k \in (DOMAIN state \ InputKeys) \cup DOMAIN input |->
                    IF k \in DOMAIN input THEN input[k] ELSE state[k]]
    /\ pc' = "PENDING"
    /\ locals' = NoLocals
    /\ response' = NoResponse
    /\ result' = NoResult
    /\ detectCalls' = 0
    /\ llmCalls' = 0
    /\ path' = "none"
    /\ UNCHANGED <<call, skills>>

\* Mutant of RunShortCircuit: the detection runs before the entry guard.
RunShortCircuit_detects_first ==
    /\ pc = "PENDING"
    /\ ShortCircuits(state)
    /\ state' = WriteRejectedEmpty(state)
    /\ pc' = "REJECTED_EMPTY"
    /\ path' = "guard"
    /\ detectCalls' = detectCalls + 1
    /\ UNCHANGED <<locals, response, result, llmCalls, call, skills>>

\* run(), an early return: upstream error or no sections.
RunShortCircuit ==
    /\ pc = "PENDING"
    /\ ShortCircuits(state)
    /\ state' = WriteRejectedEmpty(state)
    /\ pc' = "REJECTED_EMPTY"
    /\ path' = "guard"
    /\ UNCHANGED <<locals, response, result, detectCalls, llmCalls, call, skills>>

\* run() up to the rubric call: the document is assembled, review() detects
\* and scores, the prompt is rendered and self.llm.chat is entered.
RunToRubricCall ==
    /\ pc = "PENDING"
    /\ ~ShortCircuits(state)
    /\ locals' = DetectAndScore(AssembleDocument(state["sections"]))
    /\ detectCalls' = detectCalls + 1
    /\ llmCalls' = llmCalls + 1
    /\ pc' = "SCORING"
    /\ UNCHANGED <<state, response, result, path, call, skills>>

\* The same, when get_prompt_manager().render_reviewer raises: the call is
\* made before the try block, so the exception leaves review() and run().
RunRenderRaises ==
    /\ pc = "PENDING"
    /\ ~ShortCircuits(state)
    /\ locals' = DetectAndScore(AssembleDocument(state["sections"]))
    /\ detectCalls' = detectCalls + 1
    /\ pc' = "RAISED"
    /\ UNCHANGED <<state, response, result, llmCalls, path, call, skills>>

\* A variant that calls self.llm.chat again when the call or its parsing
\* failed, and falls back only at the third failure.
RubricReturns_retries(resp) ==
    /\ pc = "SCORING"
    /\ response' = resp
    /\ IF TryBlock(resp, locals.ai_patterns, locals.humanization_score).raised /\ llmCalls < 3
       THEN /\ llmCalls' = llmCalls + 1
            /\ UNCHANGED <<state, pc, result, path>>
       ELSE /\ path' = IF TryBlock(resp, locals.ai_patterns, locals.humanization_score).raised
                       THEN "fallback" ELSE "scored"
            /\ \E res \in {review(resp, locals.ai_patterns, locals.humanization_score)} :
                   /\ result' = res
                   /\ state' = WriteResult(state, res)
                   /\ pc' = IF LoggingRaises(res) THEN "RAISED"
                            ELSE IF res.approved = PyTrue THEN "APPROVED"
                            ELSE "REJECTED"
            /\ UNCHANGED llmCalls
    /\ UNCHANGED <<locals, detectCalls, call, skills>>

\* self.llm.chat returns or raises; review() finishes, run() writes the
\* state and logs.
RubricReturns(resp) ==
    /\ pc = "SCORING"
    /\ response' = resp
    /\ path' = IF TryBlock(resp, locals.ai_patterns, locals.humanization_score).raised
                THEN "fallback" ELSE "scored"
    /\ \E res \in {review(resp, locals.ai_patterns, locals.humanization_score)} :
           /\ result' = res
           /\ state' = WriteResult(state, res)
           /\ pc' = IF LoggingRaises(res) THEN "RAISED"
                    ELSE IF res.approved = PyTrue THEN "APPROVED"
                    ELSE "REJECTED"
    /\ UNCHANGED <<locals, detectCalls, llmCalls, call, skills>>

Next ==
    \/ \E input \in Inputs : Submit(input)
    \/ RunShortCircuit
    \/ RunToRubricCall
    \/ RunRenderRaises
    \/ \E resp \in Responses : RubricReturns(resp)

Spec == Init /\ [][Next]_vars

\* A step of run(): run() keeps running once it is called, and the rubric
\* call returns or fails in the end (the caller's timeout bounds it).
RunStep ==
    \/ RunShortCircuit
    \/ RunToRubricCall
    \/ RunRenderRaises
    \/ \E resp \in Responses : RubricReturns(resp)

SpecFair == Spec /\ WF_vars(RunStep)

----------------------------------------------------------------------------
(* The merge arithmetic alone: final_score applied to every base score and *)
(* humanization score of the documented ranges.                            *)

MaxBaseScore == 100

MaxHumanizationScore == 20

\* The arguments are drawn at the start; the Gate itself stays idle.
InitMerge ==
    /\ state = EmptyDict
    /\ pc = "IDLE"
    /\ locals = NoLocals
    /\ response = NoResponse
    /\ result = NoResult
    /\ detectCalls = 0
    /\ llmCalls = 0
    /\ path = "none"
    /\ skills = NoSkills
    /\ call \in {[op |-> "args", base |-> b, hum |-> h, ret |-> 0] :
                    b \in 0..MaxBaseScore, h \in 0..MaxHumanizationScore}

MergeCall ==
    /\ call.op = "args"
    /\ call' = [call EXCEPT !.op = "final_score",
                            !.ret = final_score(call.base, call.hum)]
    /\ UNCHANGED <<state, pc, locals, response, result, detectCalls, llmCalls, path, skills>>

NextMerge == MergeCall

SpecMerge == InitMerge /\ [][NextMerge]_vars

----------------------------------------------------------------------------
(* constants.py: REVIEW_THRESHOLD = _get_int_env("REVIEW_THRESHOLD", 91)   *)

\* The gate and the skill loader stay idle in the specifications of pure
\* functions.
GateIdle ==
    /\ skills = NoSkills
    /\ state = EmptyDict
    /\ pc = "IDLE"
    /\ locals = NoLocals
    /\ response = NoResponse
    /\ result = NoResult
    /\ detectCalls = 0
    /\ llmCalls = 0
    /\ path = "none"

GateUnchanged ==
    UNCHANGED <<state, pc, locals, response, result, detectCalls, llmCalls, path, skills>>

Digits == <<"0","1","2","3","4","5","6","7","8","9">>

IsDigit(c) == \E i \in DOMAIN Digits : Digits[i] = c

DigitValue(c) == (CHOOSE i \in DOMAIN Digits : Digits[i] = c) - 1

RECURSIVE DigitsValue(_, _)
DigitsValue(s, acc) ==
    IF s = <<>> THEN acc ELSE DigitsValue(Tail(s), acc * 10 + DigitValue(Head(s)))

ValueError == [ok |-> FALSE, v |-> 0]

\* int(s) for a str: surrounding whitespace is dropped, one sign is allowed,
\* then decimal digits only; anything else is a ValueError.
PyInt(s) ==
    LET t == Strip(s)
        signed == t # <<>> /\ Head(t) \in {"+", "-"}
        body == IF signed THEN Tail(t) ELSE t
    IN  IF body = <<>> \/ \E n \in DOMAIN body : ~IsDigit(body[n]) THEN ValueError
        ELSE [ok |-> TRUE,
              v |-> IF signed /\ Head(t) = "-" THEN -DigitsValue(body, 0)
                    ELSE DigitsValue(body, 0)]

DefaultThreshold == 91

\* The environment: the variable unset, or set to a string.
Unset == [set |-> FALSE, value |-> <<>>]

EnvValue(s) == [set |-> TRUE, value |-> s]

\* os.getenv(name, str(default)) parsed by int(); the default on ValueError.
\* An unset variable yields str(default), whose int() is the default.
_get_int_env(env, default) ==
    IF ~env.set THEN default
    ELSE LET parsed == PyInt(env.value)
         IN  IF parsed.ok THEN parsed.v ELSE default

REVIEW_THRESHOLD(env) == _get_int_env(env, DefaultThreshold)

\* Values of REVIEW_THRESHOLD in the deployment environment.
EnvOptions ==
    {Unset, EnvValue(<<>>), EnvValue(<<"a","b","c">>), EnvValue(<<"9",".","5">>),
     EnvValue(<<"0">>), EnvValue(<<"8","0">>), EnvValue(<<" ","8","5","\n">>),
     EnvValue(<<"+","9","5">>), EnvValue(<<"1","0","0">>), EnvValue(<<"1","5","0">>),
     EnvValue(<<"-","5">>)}

\* The process starts with an environment; one clean document (no pattern,
\* humanization score 20) is reviewed with a rubric object that approves.
InitThreshold ==
    /\ GateIdle
    /\ call \in {[op |-> "args", env |-> e, base |-> b, threshold |-> 0, ret |-> NoResult] :
                    e \in EnvOptions, b \in 0..MaxBaseScore}

ThresholdReview ==
    /\ call.op = "args"
    /\ call' = [call EXCEPT
                  !.op = "review",
                  !.threshold = REVIEW_THRESHOLD(call.env),
                  !.ret = review([kind |-> "object",
                                  body |-> [GoodObject EXCEPT !.score = JInt(call.base)]],
                                 <<>>, calculate_humanization_score(<<>>))]
    /\ GateUnchanged

NextThreshold == ThresholdReview

SpecThreshold == InitThreshold /\ [][NextThreshold]_vars

----------------------------------------------------------------------------
(* calculate_humanization_score as a pure function of its argument *)

MaxDetections == 3

ListsUpTo(S, n) == UNION {[1..k -> S] : k \in 0..n}

Severities == {"low", "medium", "high"}

\* Counts around the cap, and one below zero (the argument is any list of
\* dicts: nothing restricts count to what detect_ai_patterns produces).
CountOptions == {-1, 1, 2, CountCap, CountCap + 1}

\* The pattern dicts the scorer reads: severity and count, either possibly
\* absent, the severity possibly outside the weight table.
ScoredPatterns ==
    {[severity |-> s, count |-> c] : s \in Severities, c \in CountOptions}
      \cup {[severity |-> "critical", count |-> 3], [count |-> 1], [severity |-> "medium"]}

InitScore ==
    /\ GateIdle
    /\ call \in {[op |-> "args", detected_patterns |-> d, ret |-> 0] :
                    d \in ListsUpTo(ScoredPatterns, MaxDetections)}

ScoreCall ==
    /\ call.op = "args"
    /\ call' = [call EXCEPT !.op = "calculate_humanization_score",
                            !.ret = calculate_humanization_score(call.detected_patterns)]
    /\ GateUnchanged

NextScore == ScoreCall

SpecScore == InitScore /\ [][NextScore]_vars

----------------------------------------------------------------------------
(* detect_ai_patterns as a pure function of its arguments *)

MaxTokens == 3

T_Key == <<"K","e","y">>
T_three_dashes == <<"-","-","-">>
T_emdashes == <<EM_DASH, EM_DASH, EM_DASH>>
T_space == <<" ">>

\* Pieces of text: catalog keywords in either case, three dashes (which
\* hold two overlapping "--"), a run of em dashes and a blank.
Tokens == {T_rich, T_Key, T_boasts, T_may, T_three_dashes, T_emdashes, T_space}

RECURSIVE Concat(_)
Concat(pieces) == IF pieces = <<>> THEN <<>> ELSE Head(pieces) \o Concat(Tail(pieces))

Texts == {Concat(pieces) : pieces \in ListsUpTo(Tokens, MaxTokens)}

\* min_severity: the three levels and strings outside severity_order.
MinSeverityOptions == Severities \cup {"critical", "", "High"}

\* Every keyword of the catalog.
CatalogKeywords ==
    UNION {{ALL_PATTERNS[i].keywords[n] : n \in DOMAIN ALL_PATTERNS[i].keywords} :
              i \in DOMAIN ALL_PATTERNS}

InitDetect ==
    /\ GateIdle
    /\ call \in {[op |-> "args", text |-> t, ret |-> <<>>, scan |-> <<>>] : t \in Texts}

\* The text is scanned at every min_severity; scan keeps, per keyword, the
\* locations that the inner loop records before they are joined and capped.
DetectCall ==
    /\ call.op = "args"
    /\ call' = [call EXCEPT
                  !.op = "detect_ai_patterns",
                  !.ret = [m \in MinSeverityOptions |-> detect_ai_patterns(call.text, m)],
                  !.scan = [k \in CatalogKeywords |-> KeywordLocations(call.text, k)]]
    /\ GateUnchanged

NextDetect == DetectCall

SpecDetect == InitDetect /\ [][NextDetect]_vars

----------------------------------------------------------------------------
(* Section Auditor: detect_humanizer_issues(document, sections, llm_client) *)

MaxAuditIssues == 2

AuditFailure == [humanization_score |-> 0, issues |-> <<>>, summary |-> "detection failed"]

\* The ids of the input sections.
KnownIds(sections) == {Get(sections[n], "id", "") : n \in DOMAIN sections}

\* A variant that trusts the section_id of the response.
NormalizeIssue_trusts_id(issue, ids) ==
    LET severity == Get(issue, "severity", "medium")
    IN  Put(Put(issue, "section_id", Get(issue, "section_id", "")),
            "severity", IF severity \in {"low", "medium", "high"} THEN severity ELSE "medium")

\* One issue of the response: an id that is not a known one becomes "",
\* a severity outside low / medium / high becomes "medium".
NormalizeIssue(issue, ids) ==
    LET section_id == Get(issue, "section_id", "")
        severity == Get(issue, "severity", "medium")
    IN  Put(Put(issue, "section_id", IF section_id \in ids THEN section_id ELSE ""),
            "severity", IF severity \in {"low", "medium", "high"} THEN severity ELSE "medium")

MaxAuditScore == 20

\* humanization_score as an integer inside 0..20; 0 when it is no number.
CoerceScore(v) == IF v.t = "int" THEN Max(0, Min(MaxAuditScore, v.v)) ELSE 0

\* A variant whose failure result carries the full score.
detect_humanizer_issues_fails_open(sections, resp) ==
    IF resp.kind # "object" THEN [AuditFailure EXCEPT !.humanization_score = MaxAuditScore]
    ELSE LET issues == Get(resp.body, "issues", JNull)
         IN  IF issues.t # "list"
             THEN [AuditFailure EXCEPT !.humanization_score = MaxAuditScore]
             ELSE [humanization_score |->
                       CoerceScore(Get(resp.body, "humanization_score", JNull)),
                   issues |-> [n \in DOMAIN issues.v |->
                                  NormalizeIssue(issues.v[n], KnownIds(sections))],
                   summary |-> Get(resp.body, "summary", "")]

\* The collaborator raised, or its response is not one JSON object with an
\* issues array: the failure result.  Otherwise the normalised response.
detect_humanizer_issues(sections, resp) ==
    IF resp.kind # "object" THEN AuditFailure
    ELSE LET issues == Get(resp.body, "issues", JNull)
         IN  IF issues.t # "list" THEN AuditFailure
             ELSE [humanization_score |->
                       CoerceScore(Get(resp.body, "humanization_score", JNull)),
                   issues |-> [n \in DOMAIN issues.v |->
                                  NormalizeIssue(issues.v[n], KnownIds(sections))],
                   summary |-> Get(resp.body, "summary", "")]

\* Issues of an Auditor response: known, unknown and missing section ids,
\* valid, invalid and missing severities.
AuditIssuePool ==
    {[section_id |-> "section_1", issue_type |-> "humanization", severity |-> "medium",
      description |-> "connectives"],
     [section_id |-> "section_3", issue_type |-> "humanization", severity |-> "high",
      description |-> "promotional"],
     [section_id |-> "unknown", issue_type |-> "humanization", severity |-> "high",
      description |-> "promotional"],
     [section_id |-> "unknown", issue_type |-> "humanization", severity |-> "severe",
      description |-> "vague"],
     [issue_type |-> "humanization", description |-> "no id"]}

AuditScoreOptions == {JInt(12), JInt(25), JInt(-3), JStr}

AuditObjects ==
    LET scored == {EmptyDict} \cup
            {Put(EmptyDict, "humanization_score", s) : s \in AuditScoreOptions}
        listed == {Put(d, "issues", JList(l)) :
                      d \in scored, l \in ListsUpTo(AuditIssuePool, MaxAuditIssues)}
    IN  {Put(d, "summary", "audit summary") : d \in listed}
          \cup {[humanization_score |-> JInt(12), summary |-> "audit summary"],
                [humanization_score |-> JInt(12), summary |-> "audit summary",
                 issues |-> JNull]}

AuditResponses ==
    {[kind |-> "raise"], [kind |-> "timeout"], [kind |-> "text"], [kind |-> "list"]}
      \cup {[kind |-> "object", body |-> d] : d \in AuditObjects}

InitAudit ==
    /\ GateIdle
    /\ call \in {[op |-> "args", sections |-> sl, response |-> r, ret |-> NoResult] : sl \in SectionLists, r \in AuditResponses}

AuditCall ==
    /\ call.op = "args"
    /\ call' = [call EXCEPT !.op = "detect_humanizer_issues",
                            !.ret = detect_humanizer_issues(call.sections, call.response)]
    /\ GateUnchanged

NextAudit == AuditCall

SpecAudit == InitAudit /\ [][NextAudit]_vars

----------------------------------------------------------------------------
(* skill_loader.py: one SkillLoader, its cache and the skill files          *)

MaxParses == 3

SkillNames == {"humanizer", "nonexistent_skill"}

\* What <skills_dir>/<name>/SKILL.md can be: absent (or its directory
\* absent), unreadable, without front matter, with front matter that is
\* not YAML, with front matter that is YAML but no mapping, or a skill file
\* (with or without a name in its front matter).
MissingFile == [kind |-> "missing"]

SkillFiles ==
    {MissingFile, [kind |-> "unreadable"], [kind |-> "no_front_matter"],
     [kind |-> "bad_yaml"], [kind |-> "not_mapping"],
     [kind |-> "valid", name |-> "Humanizer-zh", prompt |-> "prompt 1"],
     [kind |-> "valid", name |-> "", prompt |-> "prompt 2"]}

ReturnedNone == [kind |-> "none"]

\* No Skill object.
NoSkill == [obj |-> 0]

RaisedError == [kind |-> "raise"]

ReturnedSkill(skill) == [kind |-> "skill", skill |-> skill]

\* _parse_skill_file: None when the file cannot be read, has no front
\* matter or its front matter is not YAML; meta.get raises when the front
\* matter is YAML but not a mapping; else a new Skill object (obj is its
\* identity), named after the directory when the front matter has no name.
_parse_skill_file(file, skill_name, obj) ==
    CASE file.kind \in {"unreadable", "no_front_matter", "bad_yaml"} -> ReturnedNone
      [] file.kind = "not_mapping" -> RaisedError
      [] file.kind = "valid" ->
            ReturnedSkill([obj |-> obj,
                           name |-> IF file.name # "" THEN file.name ELSE skill_name,
                           prompt |-> file.prompt])

\* A variant of load_skill that does not look into the cache.
load_skill_skips_cache(sk, skill_name) ==
    LET file == sk.disk[skill_name]
        before == [name |-> skill_name, file |-> file, cache_before |-> sk.cache,
                   handed |-> skill_name \in DOMAIN sk.handed,
                   earlier |-> Get(sk.handed, skill_name, NoSkill)]
    IN  IF file.kind = "missing"
        THEN [sk EXCEPT !.last = [op |-> "load_skill", arg |-> before,
                                  ret |-> ReturnedNone, parsed |-> FALSE]]
        ELSE LET ret == _parse_skill_file(file, skill_name, sk.parses + 1)
             IN  [sk EXCEPT
                    !.parses = sk.parses + 1,
                    !.cache = IF ret.kind = "skill" THEN Put(sk.cache, skill_name, ret.skill)
                              ELSE sk.cache,
                    !.handed = IF ret.kind = "skill" THEN Put(sk.handed, skill_name, ret.skill)
                               ELSE sk.handed,
                    !.last = [op |-> "load_skill", arg |-> before,
                              ret |-> ret, parsed |-> TRUE]]

\* SkillLoader.load_skill: the cached object if there is one; None if the
\* file does not exist; else the parse, whose Skill is put into the cache.
\* handed remembers what this loader returned since the cache was cleared.
load_skill(sk, skill_name) ==
    LET file == sk.disk[skill_name]
        before == [name |-> skill_name, file |-> file, cache_before |-> sk.cache,
                   handed |-> skill_name \in DOMAIN sk.handed,
                   earlier |-> Get(sk.handed, skill_name, NoSkill)]
    IN  IF skill_name \in DOMAIN sk.cache
        THEN [sk EXCEPT !.last = [op |-> "load_skill", arg |-> before,
                                  ret |-> ReturnedSkill(sk.cache[skill_name]),
                                  parsed |-> FALSE]]
        ELSE IF file.kind = "missing"
        THEN [sk EXCEPT !.last = [op |-> "load_skill", arg |-> before,
                                  ret |-> ReturnedNone, parsed |-> FALSE]]
        ELSE LET ret == _parse_skill_file(file, skill_name, sk.parses + 1)
             IN  [sk EXCEPT
                    !.parses = sk.parses + 1,
                    !.cache = IF ret.kind = "skill" THEN Put(sk.cache, skill_name, ret.skill)
                              ELSE sk.cache,
                    !.handed = IF ret.kind = "skill" THEN Put(sk.handed, skill_name, ret.skill)
                               ELSE sk.handed,
                    !.last = [op |-> "load_skill", arg |-> before,
                              ret |-> ret, parsed |-> TRUE]]

\* SkillLoader(): an empty cache.  The directory nonexistent_skill never
\* exists; humanizer/SKILL.md is whatever the deployment holds.
InitLoader ==
    /\ state = EmptyDict
    /\ pc = "IDLE"
    /\ locals = NoLocals
    /\ response = NoResponse
    /\ result = NoResult
    /\ detectCalls = 0
    /\ llmCalls = 0
    /\ path = "none"
    /\ call = NoCall
    /\ skills \in {[use |-> "loader",
                    disk |-> [n \in SkillNames |-> IF n = "humanizer" THEN f ELSE MissingFile],
                    cache |-> EmptyDict, parses |-> 0, handed |-> EmptyDict,
                    last |-> [op |-> "none"]] : f \in SkillFiles}

LoaderUnchanged ==
    UNCHANGED <<state, pc, locals, response, result, detectCalls, llmCalls, path, call>>

LoadSkill(skill_name) ==
    /\ skills.use = "loader"
    /\ skills.parses < MaxParses
    /\ skills' = load_skill(skills, skill_name)
    /\ LoaderUnchanged

\* SkillLoader.clear_cache
ClearCache ==
    /\ skills.use = "loader"
    /\ skills' = [skills EXCEPT !.cache = EmptyDict, !.handed = EmptyDict,
                                !.last = [op |-> "clear_cache"]]
    /\ LoaderUnchanged

\* Someone edits, breaks, removes or restores humanizer/SKILL.md.
WriteSkillFile(file) ==
    /\ skills.use = "loader"
    /\ file # skills.disk["humanizer"]
    /\ skills' = [skills EXCEPT !.disk["humanizer"] = file]
    /\ LoaderUnchanged

NextLoader ==
    \/ \E n \in SkillNames : LoadSkill(n)
    \/ ClearCache
    \/ \E f \in SkillFiles : WriteSkillFile(f)

SpecLoader == InitLoader /\ [][NextLoader]_vars

----------------------------------------------------------------------------
(* skill_loader.py: get_skill_loader() called by several threads          *)

MaxThreads == 3

Threads == 1..MaxThreads

\* A new process: _skill_loader is None (0), no SkillLoader exists, every
\* thread is about to call get_skill_loader().
InitSingleton ==
    /\ state = EmptyDict
    /\ pc = "IDLE"
    /\ locals = NoLocals
    /\ response = NoResponse
    /\ result = NoResult
    /\ detectCalls = 0
    /\ llmCalls = 0
    /\ path = "none"
    /\ call = NoCall
    /\ skills = [use |-> "singleton", global |-> 0, created |-> 0,
                 threads |-> [t \in Threads |-> [at |-> "call", ret |-> 0]]]

\* if _skill_loader is None: the thread reads the global and branches.
CheckGlobal(t) ==
    /\ skills.use = "singleton"
    /\ skills.threads[t].at = "call"
    /\ skills' = [skills EXCEPT !.threads[t].at =
                     IF skills.global = 0 THEN "create" ELSE "return"]
    /\ LoaderUnchanged

\* _skill_loader = SkillLoader(): a new instance is made and stored.
CreateLoader(t) ==
    /\ skills.use = "singleton"
    /\ skills.threads[t].at = "create"
    /\ skills' = [skills EXCEPT !.created = skills.created + 1,
                                !.global = skills.created + 1,
                                !.threads[t].at = "return"]
    /\ LoaderUnchanged

\* return _skill_loader: the global is read again.
ReturnLoader(t) ==
    /\ skills.use = "singleton"
    /\ skills.threads[t].at = "return"
    /\ skills' = [skills EXCEPT !.threads[t].at = "done",
                                !.threads[t].ret = skills.global]
    /\ LoaderUnchanged

\* The thread calls get_skill_loader() once more.
CallAgain(t) ==
    /\ skills.use = "singleton"
    /\ skills.threads[t].at = "done"
    /\ skills' = [skills EXCEPT !.threads[t].at = "call"]
    /\ LoaderUnchanged

NextSingleton ==
    \E t \in Threads : CheckGlobal(t) \/ CreateLoader(t) \/ ReturnLoader(t) \/ CallAgain(t)

SpecSingleton == InitSingleton /\ [][NextSingleton]_vars

----------------------------------------------------------------------------
(* detect_ai_patterns on texts longer than the context window *)

MaxPad == 32

\* len characters "x", with a blank at the given distance from the keyword
\* (0: no blank); nearest is the index of the character next to the
\* keyword (len for the text before it, 1 for the text after it).
Padding(len, blankAt, nearest) ==
    [j \in 1..len |->
        IF blankAt > 0 /\ (IF nearest = 1 THEN j ELSE len + 1 - j) = blankAt
        THEN " " ELSE "x"]

\* Where the blank stands: nowhere, next to the keyword, at the edge of
\* the window.
BlankOptions == {0, 1, ContextChars}

\* One occurrence of "May" with up to MaxPad characters on either side.
PaddedTexts ==
    {Padding(l, bl, l) \o <<"M", "a", "y">> \o Padding(r, br, 1) :
        l \in 0..MaxPad, r \in 0..MaxPad, bl \in BlankOptions, br \in BlankOptions}

InitContext ==
    /\ GateIdle
    /\ call \in {[op |-> "args", text |-> t, ret |-> <<>>] : t \in PaddedTexts}

ContextCall ==
    /\ call.op = "args"
    /\ call' = [call EXCEPT !.op = "locations",
                            !.ret = detect_ai_patterns(call.text, "low")]
    /\ GateUnchanged

NextContext == ContextCall

SpecContext == InitContext /\ [][NextContext]_vars

----------------------------------------------------------------------------
(* Properties *)

\* The rubric call failed: the collaborator raised, timed out, or returned
\* text that is not JSON.
RubricFailed == response.kind \in {"raise", "timeout", "text"}

\* review() has returned in this review.
ReviewReturned == path \in {"scored", "fallback"}

\* An issue of severity high, as the Gate reads severities.
HighIn(issues) ==
    \E n \in DOMAIN issues : IsDict(issues[n]) /\ Get(issues[n], "severity", PyNone) = "high"

\* The rubric response is the object the contract asks for.
WellFormedResponse ==
    /\ response.kind = "object"
    /\ {"score", "approved", "issues", "summary"} \subseteq DOMAIN response.body
    /\ response.body["score"].t = "int"
    /\ response.body["approved"] \in {PyTrue, PyFalse}
    /\ response.body["issues"].t = "list"
    /\ \A n \in DOMAIN response.body["issues"].v : IsDict(response.body["issues"].v[n])

\* The input state of this review trips the entry guard.
GuardInput == Get(state, "error", "") # "" \/ Get(state, "sections", <<>>) = <<>>

\* C1 (as claimed): when the rubric call fails, the review result has
\* approved = false and its score is the merge of base_score = 0 with the
\* humanization score; the Gate never approves on a failed rubric call.
C1_FailsClosed ==
    (ReviewReturned /\ RubricFailed) =>
        /\ result["approved"] = PyFalse
        /\ state["review_approved"] = PyFalse
        /\ result["score"] = (locals.humanization_score * 100) \div 120

\* C2: for a review scored from a well-formed rubric response, approved is
\* true if and only if the rubric's approved flag is true, no issue of the
\* merged list has severity high, and the total is at least the threshold 91;
\* run() writes that verdict to review_approved.
C2_ApprovedIff ==
    (path = "scored" /\ WellFormedResponse) =>
        /\ (result["approved"] = PyTrue) <=>
               /\ response.body["approved"] = PyTrue
               /\ ~HighIn(result["issues"])
               /\ result["score"] >= ApproveThreshold
        /\ result["approved"] \in {PyTrue, PyFalse}
        /\ state["review_approved"] = result["approved"]
        /\ (pc = "APPROVED") <=> (result["approved"] = PyTrue)

C2_Witness ==
    /\ path = "scored"
    /\ WellFormedResponse
    /\ result["approved"] = PyTrue
    /\ result["issues"] # <<>>
    /\ pc = "APPROVED"

\* C3: in a scored review, an issue of severity high in the merged list
\* (rubric issues plus humanization issues) makes the result not approved,
\* whatever the base score, the humanization score and the rubric's approved
\* flag are; with a boolean or missing flag the verdict is exactly false.
C3_HardFail ==
    (path = "scored" /\ HighIn(result["issues"])) =>
        /\ result["approved"] # PyTrue
        /\ state["review_approved"] # PyTrue
        /\ pc # "APPROVED"
        /\ Get(response.body, "approved", PyTrue) \in {PyTrue, PyFalse}
               => result["approved"] = PyFalse

\* Base score 95 with humanization 20 and a rubric that approves: the total
\* clears 91 and one rubric issue is high.
C3_Witness ==
    /\ path = "scored"
    /\ HighIn(result["issues"])
    /\ Get(response.body, "score", JStr) = JInt(95)
    /\ Get(response.body, "approved", PyNone) = PyTrue
    /\ result["humanization_score"] = 20
    /\ result["score"] >= ApproveThreshold
    /\ pc = "REJECTED"

\* clamp(x, 0, 100)
Clamp100(x) == Max(0, Min(100, x))

\* C4 (as claimed): the total is the quotient rounded to the nearest integer,
\* then clamped to 0..100.
C4_Rounds ==
    call.op = "final_score" =>
        call.ret = Clamp100(RoundDiv((call.base + call.hum) * 100, 120))

\* C4 (amended): for base_score in 0..100 and humanization_score in 0..20 the
\* total is the quotient (base + humanization) * 100 / 120 truncated to an
\* integer (the largest n with n * 120 <= (base + humanization) * 100), which
\* lies in 0..100; base 80 + 20 gives 83 and base 100 + 20 gives 100.
C4_Truncates ==
    call.op = "final_score" =>
        /\ call.ret \in 0..100
        /\ call.ret * 120 <= (call.base + call.hum) * 100
        /\ (call.base + call.hum) * 100 < (call.ret + 1) * 120
        /\ (call.base = 80 /\ call.hum = 20) => call.ret = 83
        /\ (call.base = 100 /\ call.hum = 20) => call.ret = 100

\* Base 90 + 20: the quotient 91.67 is cut to 91, where rounding gives 92.
C4_Witness ==
    /\ call.op = "final_score"
    /\ call.base = 90
    /\ call.hum = 20
    /\ call.ret = 91

\* C5: when the input state carries an upstream error (sections present or
\* not) or has no sections, run() ends in REJECTED_EMPTY with
\* review_score = 0, review_approved = false and review_issues = [].
C5_EntryGuardResult ==
    (pc \notin {"IDLE", "PENDING"} /\ GuardInput) =>
        /\ pc = "REJECTED_EMPTY"
        /\ state["review_score"] = 0
        /\ state["review_approved"] = PyFalse
        /\ state["review_issues"] = <<>>

\* An upstream error with sections present.
C5_Witness ==
    /\ pc = "REJECTED_EMPTY"
    /\ Get(state, "error", "") # ""
    /\ Get(state, "sections", <<>>) # <<>>
    /\ state["review_score"] = 0

\* C6: a review that short-circuits (upstream error or no sections) makes no
\* detect call and no call to the rubric judge: REJECTED_EMPTY is never
\* reached with a detection or an LLM call made in the same review.
C6_NoCallsOnShortCircuit ==
    (pc = "REJECTED_EMPTY" \/ path = "guard" \/ GuardInput) =>
        /\ detectCalls = 0
        /\ llmCalls = 0
        /\ response = NoResponse
        /\ locals = NoLocals

\* A short circuit in a state that an earlier, scored review has written.
C6_Witness ==
    /\ pc = "REJECTED_EMPTY"
    /\ "humanization_score" \in DOMAIN state
    /\ detectCalls = 0
    /\ llmCalls = 0

\* C7 (as claimed): run() never propagates an exception to its caller.
C7_NeverRaises == pc # "RAISED"

\* C8 (as claimed): a rubric object that lacks score or approved yields
\* approved = false.
C8_MissingFieldRejected ==
    (/\ ReviewReturned
     /\ response.kind = "object"
     /\ ("score" \notin DOMAIN response.body \/ "approved" \notin DOMAIN response.body)) =>
        /\ result["approved"] = PyFalse
        /\ state["review_approved"] = PyFalse

\* C9 (as claimed): whenever run() has returned, review_score is in 0..100
\* and the humanization_score it wrote is in 0..20.
C9_ScoresInRange ==
    pc \in {"APPROVED", "REJECTED", "REJECTED_EMPTY"} =>
        /\ state["review_score"] \in 0..100
        /\ Get(state, "humanization_score", 0) \in 0..20

\* C10 (as claimed): on a failed rubric call the result carries the Scorer's
\* humanization score, exactly the humanization issues of the detections,
\* and as total the merge of base_score = 0 with that humanization score.
C10_FallbackInformative ==
    (ReviewReturned /\ RubricFailed) =>
        /\ result["humanization_score"] = locals.humanization_score
        /\ result["issues"] = _convert_patterns_to_issues(locals.ai_patterns)
        /\ result["score"] = (locals.humanization_score * 100) \div 120

----------------------------------------------------------------------------
(* Properties of the configured threshold *)

\* C11 (as claimed): the threshold is 91 when REVIEW_THRESHOLD is unset or
\* not an integer and the environment's integer otherwise, it lies in
\* 0..100, and a review with rubric approval and no high issue is approved
\* exactly when its total is at least the configured threshold.
C11_ConfiguredThreshold ==
    call.op = "review" =>
        /\ (~call.env.set \/ call.env.value \in {<<>>, <<"a","b","c">>, <<"9",".","5">>})
               => call.threshold = 91
        /\ call.env = EnvValue(<<"8","0">>) => call.threshold = 80
        /\ call.env = EnvValue(<<" ","8","5","\n">>) => call.threshold = 85
        /\ call.threshold \in 0..100
        /\ (call.ret["approved"] = PyTrue) <=> (call.ret["score"] >= call.threshold)

----------------------------------------------------------------------------
(* Properties of calculate_humanization_score *)

Scored == call.op = "calculate_humanization_score"

\* Detections as detect_ai_patterns makes them: a catalog severity and a
\* count of matches.
DetectionLike(p) ==
    /\ DOMAIN p = {"severity", "count"}
    /\ p["severity"] \in Severities
    /\ p["count"] >= 0

ClaimedWeight2(severity) ==
    CASE severity = "low" -> 1 [] severity = "medium" -> 2 [] severity = "high" -> 4

RECURSIVE ClaimedPenalty2(_)
ClaimedPenalty2(d) ==
    IF d = <<>> THEN 0
    ELSE ClaimedWeight2(Head(d)["severity"]) * Min(Head(d)["count"], 5)
           + ClaimedPenalty2(Tail(d))

\* max(0, 20 - floor(sum)): the sum is kept doubled, \div is the floor.
ClaimedScore(d) == IF d = <<>> THEN 20 ELSE Max(0, 20 - (ClaimedPenalty2(d) \div 2))

\* C12: the score is 20 for the empty list and otherwise
\* max(0, 20 - floor(sum of weight(severity) * min(count, 5))) with weights
\* 0.5 / 1.0 / 2.0, the floor taken once over the sum; a count above 5
\* scores as count 5 does. (Detections with a catalog severity and a count
\* of matches, that is count >= 0.)
C12_ScoreFormula ==
    (Scored /\ \A i \in DOMAIN call.detected_patterns :
                   DetectionLike(call.detected_patterns[i]))
    => /\ call.ret = ClaimedScore(call.detected_patterns)
       /\ call.detected_patterns = <<>> => call.ret = 20
       /\ \A i \in DOMAIN call.detected_patterns :
             call.detected_patterns[i]["count"] > 5
             => call.ret = ClaimedScore([call.detected_patterns EXCEPT ![i]["count"] = 5])

\* Two detections whose half points add up to a whole one, one of them over
\* the cap.
C12_Witness ==
    /\ Scored
    /\ \A i \in DOMAIN call.detected_patterns : DetectionLike(call.detected_patterns[i])
    /\ Len(call.detected_patterns) = 3
    /\ \E i, j \in DOMAIN call.detected_patterns :
          /\ i # j
          /\ call.detected_patterns[i] = [severity |-> "low", count |-> 1]
          /\ call.detected_patterns[j] = [severity |-> "low", count |-> 1]
    /\ \E i \in DOMAIN call.detected_patterns : call.detected_patterns[i]["count"] > 5
    /\ call.ret < 20

\* C13 (as claimed): for any detection list, whatever the severities and
\* the integer counts, the score lies in 0..20.
C13_ScoreInRange == Scored => (0 <= call.ret /\ call.ret <= 20)

\* C14: raising one detection's count, all else equal, never raises the
\* score.
C14_MonotonicPenalty ==
    Scored =>
        \A i \in DOMAIN call.detected_patterns :
            "count" \in DOMAIN call.detected_patterns[i] =>
                \A c \in CountOptions :
                    c > call.detected_patterns[i]["count"] =>
                        calculate_humanization_score(
                            [call.detected_patterns EXCEPT ![i]["count"] = c]) <= call.ret

\* A count is raised over the cap, and another one's raise lowers the score.
C14_Witness ==
    /\ Scored
    /\ \E i \in DOMAIN call.detected_patterns :
          /\ "count" \in DOMAIN call.detected_patterns[i]
          /\ call.detected_patterns[i]["count"] = CountCap
    /\ \E i \in DOMAIN call.detected_patterns :
          /\ "count" \in DOMAIN call.detected_patterns[i]
          /\ \E c \in CountOptions :
                /\ c > call.detected_patterns[i]["count"]
                /\ calculate_humanization_score(
                      [call.detected_patterns EXCEPT ![i]["count"] = c]) < call.ret

----------------------------------------------------------------------------
(* Properties of detect_ai_patterns *)

Detected == call.op = "detect_ai_patterns"

PatternIds(detections) == {detections[n].pattern_id : n \in DOMAIN detections}

CountOf(detections, id) ==
    detections[CHOOSE n \in DOMAIN detections : detections[n].pattern_id = id].count

\* C15: the pattern ids found at "high" are among those found at "medium",
\* which are among those found at "low", and a pattern found at two levels
\* has the same count at both.
C15_MonotonicFiltering ==
    Detected =>
        /\ PatternIds(call.ret["high"]) \subseteq PatternIds(call.ret["medium"])
        /\ PatternIds(call.ret["medium"]) \subseteq PatternIds(call.ret["low"])
        /\ \A a, b \in Severities :
              \A id \in PatternIds(call.ret[a]) \cap PatternIds(call.ret[b]) :
                  CountOf(call.ret[a], id) = CountOf(call.ret[b], id)

\* Each level finds strictly more than the one above it.
C15_Witness ==
    /\ Detected
    /\ PatternIds(call.ret["high"]) # {}
    /\ PatternIds(call.ret["high"]) # PatternIds(call.ret["medium"])
    /\ PatternIds(call.ret["medium"]) # PatternIds(call.ret["low"])

\* The order of the sort keys of two detections, severity first (higher
\* first), then count (larger first): "before", "tie" or "after".
KeyOrder(a, b) ==
    LET rank(d) == CASE d.severity = "high" -> 2 [] d.severity = "medium" -> 1 [] OTHER -> 0
    IN  IF rank(a) > rank(b) \/ (rank(a) = rank(b) /\ a.count > b.count) THEN "before"
        ELSE IF rank(a) = rank(b) /\ a.count = b.count THEN "tie"
        ELSE "after"

\* The pattern ids of the catalog in ascending (lexicographic) order.
IdsAscending ==
    <<"ai_vocabulary", "copula_avoidance", "elegant_variation", "em_dash_overuse",
      "excessive_hedging", "inline_header_lists", "promotional_language",
      "rule_of_three", "title_case_headings">>

IdRank(id) == CHOOSE n \in DOMAIN IdsAscending : IdsAscending[n] = id

CatalogIndex(id) == CHOOSE i \in DOMAIN ALL_PATTERNS : ALL_PATTERNS[i].pattern_id = id

\* C16 (as claimed): the result is ordered by severity descending, then
\* count descending, then pattern_id ascending: of two adjacent detections
\* with equal severity and count the earlier has the smaller pattern_id.
C16_TieByPatternId ==
    Detected =>
        \A m \in MinSeverityOptions : \A n \in 1..(Len(call.ret[m]) - 1) :
            LET a == call.ret[m][n]
                b == call.ret[m][n + 1]
            IN  \/ KeyOrder(a, b) = "before"
                \/ KeyOrder(a, b) = "tie" /\ IdRank(a.pattern_id) < IdRank(b.pattern_id)

\* C16 (amended): the result is ordered by severity descending, then count
\* descending; two adjacent detections with equal severity and count stand
\* in the catalog's insertion order.
C16_TieByCatalogOrder ==
    Detected =>
        \A m \in MinSeverityOptions : \A n \in 1..(Len(call.ret[m]) - 1) :
            LET a == call.ret[m][n]
                b == call.ret[m][n + 1]
            IN  \/ KeyOrder(a, b) = "before"
                \/ KeyOrder(a, b) = "tie"
                     /\ CatalogIndex(a.pattern_id) < CatalogIndex(b.pattern_id)

\* A tie stands in catalog order, which is not the order of the pattern
\* ids, and is followed by a detection of a later key.
C16_Witness ==
    /\ Detected
    /\ \E n \in 1..(Len(call.ret["low"]) - 1) :
          LET a == call.ret["low"][n]
              b == call.ret["low"][n + 1]
          IN  /\ KeyOrder(a, b) = "tie"
              /\ IdRank(a.pattern_id) > IdRank(b.pattern_id)
    /\ \E n \in 1..(Len(call.ret["low"]) - 1) :
          LET a == call.ret["low"][n]
              b == call.ret["low"][n + 1]
          IN  KeyOrder(a, b) = "before"

CatalogPattern(id) == ALL_PATTERNS[CatalogIndex(id)]

InSeq(x, seq) == \E n \in DOMAIN seq : seq[n] = x

\* The matches that the scan recorded for the keywords, added up.
RECURSIVE RecordedMatches(_)
RecordedMatches(keywords) ==
    IF keywords = <<>> THEN 0
    ELSE Len(call.scan[Head(keywords)]) + RecordedMatches(Tail(keywords))

\* C17: the count of a detection is the number of matches of all the
\* keywords of its pattern, uncapped; locations holds min(count, 5) entries
\* and each of them is one of those matches.
C17_CountUncapped ==
    Detected =>
        \A m \in MinSeverityOptions : \A n \in DOMAIN call.ret[m] :
            LET d == call.ret[m][n]
                keywords == CatalogPattern(d.pattern_id).keywords
            IN  /\ d.count = RecordedMatches(keywords)
                /\ Len(d.locations) = Min(d.count, 5)
                /\ \A l \in DOMAIN d.locations :
                      /\ InSeq(d.locations[l].keyword, keywords)
                      /\ InSeq(d.locations[l], call.scan[d.locations[l].keyword])
                      /\ MatchAt(call.text, d.locations[l].keyword, d.locations[l].position)
                /\ \A k, l \in DOMAIN d.locations : k # l => d.locations[k] # d.locations[l]

\* A pattern matched more than five times, through both of its keywords.
C17_Witness ==
    /\ Detected
    /\ \E n \in DOMAIN call.ret["low"] :
          LET d == call.ret["low"][n]
          IN  /\ d.count > 5
              /\ Len(d.locations) = 5
              /\ call.scan[T_dashes] # <<>>
              /\ call.scan[T_emdash] # <<>>

\* The keyword occurs somewhere in the text, ignoring case.
Occurs(keyword) == \E i \in 0..Len(call.text) : MatchAt(call.text, keyword, i)

ClaimedLevel(severity) ==
    CASE severity = "low" -> 0 [] severity = "medium" -> 1 [] severity = "high" -> 2

\* C18: a catalog pattern is in the result if and only if its severity is
\* at least min_severity, it has keywords and one of them occurs in the
\* text; so every detection has count >= 1, the patterns without keywords
\* (rule_of_three, elegant_variation, inline_header_lists,
\* title_case_headings) never appear, no pattern id appears twice and the
\* empty text gives the empty list.
C18_AppearsIff ==
    Detected =>
        \A m \in Severities :
            /\ \A i \in DOMAIN ALL_PATTERNS :
                  LET p == ALL_PATTERNS[i]
                  IN  (p.pattern_id \in PatternIds(call.ret[m]))
                      <=> /\ ClaimedLevel(p.severity) >= ClaimedLevel(m)
                          /\ p.keywords # <<>>
                          /\ \E n \in DOMAIN p.keywords : Occurs(p.keywords[n])
            /\ \A n \in DOMAIN call.ret[m] : call.ret[m][n].count >= 1
            /\ PatternIds(call.ret[m]) \cap {"rule_of_three", "elegant_variation",
                                            "inline_header_lists", "title_case_headings"} = {}
            /\ \A a, b \in DOMAIN call.ret[m] :
                  a # b => call.ret[m][a].pattern_id # call.ret[m][b].pattern_id
            /\ call.text = <<>> => call.ret[m] = <<>>

\* A pattern is found through its second keyword only, another one is
\* filtered by the level although its keyword occurs, a third has no
\* keyword in the text.
C18_Witness ==
    /\ Detected
    /\ "promotional_language" \in PatternIds(call.ret["high"])
    /\ ~Occurs(T_boasts)
    /\ Occurs(T_may)
    /\ "excessive_hedging" \notin PatternIds(call.ret["high"])
    /\ "excessive_hedging" \in PatternIds(call.ret["medium"])
    /\ "ai_vocabulary" \notin PatternIds(call.ret["low"])

\* The offsets at which the keyword stands in the text, ignoring case.
Offsets(keyword) == {i \in 0..Len(call.text) : MatchAt(call.text, keyword, i)}

Positions(keyword) == {call.scan[keyword][n].position : n \in DOMAIN call.scan[keyword]}

\* C19 (as claimed): the scan of a keyword records one match for every
\* offset at which the keyword stands in the text ignoring case,
\* overlapping occurrences and occurrences inside longer words included.
C19_EveryOffset ==
    Detected =>
        \A k \in CatalogKeywords : Len(call.scan[k]) = Cardinality(Offsets(k))

\* C19 (amended): the scan of a keyword records, left to right, the
\* occurrences that do not overlap an earlier recorded one: every recorded
\* position is an offset of the keyword (ignoring case, inside longer words
\* too), positions ascend by at least the keyword's length, and an offset
\* is left out exactly when a recorded match that starts before it covers
\* it.
C19_NonOverlapping ==
    Detected =>
        \A k \in CatalogKeywords :
            /\ Positions(k) \subseteq Offsets(k)
            /\ \A n \in 1..(Len(call.scan[k]) - 1) :
                  call.scan[k][n].position + Len(k) <= call.scan[k][n + 1].position
            /\ \A n \in DOMAIN call.scan[k] : call.scan[k][n].keyword = k
            /\ \A i \in Offsets(k) \ Positions(k) :
                  \E q \in Positions(k) : q < i /\ i < q + Len(k)

\* "--" stands at two overlapping offsets and is recorded once; a keyword
\* is recorded inside a longer word and in another case.
C19_Witness ==
    /\ Detected
    /\ Cardinality(Offsets(T_dashes)) > Len(call.scan[T_dashes])
    /\ Len(call.scan[T_dashes]) >= 1
    /\ \E n \in DOMAIN call.scan[T_key] :
          LET pos == call.scan[T_key][n].position
          IN  /\ pos > 0
              /\ call.text[pos] # " "
              /\ call.text[pos + 1] = "K"

\* C20: a min_severity outside low / medium / high gives the list that
\* "low" gives.
C20_UnknownIsLow ==
    Detected =>
        \A m \in MinSeverityOptions \ Severities : call.ret[m] = call.ret["low"]

\* The unknown levels keep a low pattern that "medium" drops.
C20_Witness ==
    /\ Detected
    /\ "em_dash_overuse" \in PatternIds(call.ret["High"])
    /\ "em_dash_overuse" \in PatternIds(call.ret[""])
    /\ "em_dash_overuse" \in PatternIds(call.ret["critical"])
    /\ "em_dash_overuse" \notin PatternIds(call.ret["medium"])
    /\ PatternIds(call.ret["high"]) # {}

----------------------------------------------------------------------------
(* Properties of the Section Auditor *)

Audited == call.op = "detect_humanizer_issues"

\* The response is one JSON object with an array of issues.
AuditParsed ==
    /\ call.response.kind = "object"
    /\ "issues" \in DOMAIN call.response.body
    /\ call.response.body["issues"].t = "list"

InputIds == {call.sections[n].id : n \in DOMAIN call.sections}

\* C21: every issue of the response is returned, in the response's order;
\* it keeps its section_id when that is the id of an input section and has
\* section_id "" otherwise.
C21_SectionIdNormalised ==
    (Audited /\ AuditParsed) =>
        LET sent == call.response.body["issues"].v
            got == call.ret.issues
        IN  /\ Len(got) = Len(sent)
            /\ \A n \in DOMAIN sent :
                  /\ got[n]["description"] = sent[n]["description"]
                  /\ got[n]["section_id"] =
                        IF "section_id" \in DOMAIN sent[n] /\ sent[n]["section_id"] \in InputIds
                        THEN sent[n]["section_id"] ELSE ""

\* Two issues, the first with the id of an input section, the second with
\* an id that no input section has.
C21_Witness ==
    /\ Audited
    /\ AuditParsed
    /\ Len(call.ret.issues) = 2
    /\ call.ret.issues[1]["section_id"] = "section_1"
    /\ Get(call.response.body["issues"].v[2], "section_id", "") = "unknown"
    /\ call.ret.issues[2]["section_id"] = ""

\* C22: when the collaborator call raises or its response does not parse
\* as the expected shape, the call returns: score 0, no issues and the
\* failure summary.
C22_AuditFailsClosed ==
    (Audited /\ ~AuditParsed) =>
        /\ call.ret.humanization_score = 0
        /\ call.ret.issues = <<>>
        /\ call.ret.summary = "detection failed"

\* The collaborator raised for a document with sections.
C22_Witness ==
    /\ Audited
    /\ call.response.kind = "raise"
    /\ call.sections # <<>>
    /\ call.ret.humanization_score = 0

----------------------------------------------------------------------------
(* Properties of the merged review *)

\* C23: the issues of a scored review are the rubric judge's issues in the
\* judge's order, followed by one humanization issue per detected pattern
\* in detection order.
C23_MergeOrder ==
    path = "scored" =>
        LET rubric == Get(response.body, "issues", JList(<<>>)).v
            merged == result["issues"]
        IN  /\ Len(merged) = Len(rubric) + Len(locals.ai_patterns)
            /\ \A n \in DOMAIN rubric : merged[n] = rubric[n]
            /\ \A n \in DOMAIN locals.ai_patterns :
                  LET issue == merged[Len(rubric) + n]
                  IN  /\ issue["issue_type"] = "humanization"
                      /\ issue["description"][1] = locals.ai_patterns[n].pattern_name
                      /\ issue["severity"] = locals.ai_patterns[n].severity
            /\ state["review_issues"] = merged

\* Two rubric issues are followed by the issues of two detected patterns.
C23_Witness ==
    /\ pc = "REJECTED"
    /\ path = "scored"
    /\ Len(Get(response.body, "issues", JList(<<>>)).v) = 2
    /\ Len(locals.ai_patterns) = 2
    /\ Len(state["review_issues"]) = 4
    /\ state["review_issues"][1] = RubricNoSeverity
    /\ state["review_issues"][4]["issue_type"] = "humanization"

----------------------------------------------------------------------------
(* Properties of the skill loader *)

LastLoad == skills.use = "loader" /\ skills.last.op = "load_skill"

\* C24: once load_skill(n) has returned a Skill, a later load_skill(n)
\* returns that very object and does not parse, until clear_cache();
\* after clear_cache() the cache is empty; a load that fails (file or
\* directory missing, no or unparsable front matter) returns None and
\* leaves the cache as it was.
C24_CacheLifecycle ==
    /\ (LastLoad /\ skills.last.arg.handed) =>
          /\ skills.last.ret = ReturnedSkill(skills.last.arg.earlier)
          /\ ~skills.last.parsed
          /\ skills.cache = skills.last.arg.cache_before
    /\ (skills.use = "loader" /\ skills.last.op = "clear_cache") =>
          skills.cache = EmptyDict
    /\ (LastLoad /\ ~skills.last.arg.handed
          /\ skills.last.arg.file.kind \in
                {"missing", "unreadable", "no_front_matter", "bad_yaml"}) =>
          /\ skills.last.ret = ReturnedNone
          /\ skills.cache = skills.last.arg.cache_before

\* The skill was loaded again after a clear_cache, its file has since been
\* removed, and one more load returns the object of the second load.
C24_Witness ==
    /\ LastLoad
    /\ skills.last.arg.handed
    /\ skills.last.arg.file.kind = "missing"
    /\ skills.last.ret.kind = "skill"
    /\ skills.last.ret.skill.obj >= 2

\* C25 (as claimed): every call of get_skill_loader() in the process
\* returns the same SkillLoader, in any interleaving of the first calls:
\* no two callers hold distinct instances.
C25_Singleton ==
    skills.use = "singleton" =>
        \A t, u \in Threads :
            (skills.threads[t].ret # 0 /\ skills.threads[u].ret # 0)
                => skills.threads[t].ret = skills.threads[u].ret

----------------------------------------------------------------------------
(* Properties of the Gate's control flow *)

\* C26: within one review the rubric judge is called at most once: exactly
\* once when review() ran, whether the call succeeded, returned malformed
\* output or raised, and not at all on the entry-guard path.
C26_NoRetry ==
    /\ llmCalls <= 1
    /\ pc = "SCORING" => llmCalls = 1
    /\ ReviewReturned => llmCalls = 1
    /\ path = "guard" => llmCalls = 0

\* The call raised, or returned text that is no JSON, and the review ended
\* with a single call.
C26_Witness ==
    /\ path = "fallback"
    /\ response.kind \in {"raise", "text"}
    /\ pc \in {"APPROVED", "REJECTED"}
    /\ llmCalls = 1

Terminal == pc \in {"REJECTED_EMPTY", "APPROVED", "REJECTED"}

\* C27 (as claimed): a review goes from PENDING either to REJECTED_EMPTY
\* or to SCORING and from there to APPROVED or REJECTED; REJECTED_EMPTY is
\* never entered from SCORING and nothing leaves a terminal state (but a
\* new review); every review reaches a terminal state.
C27_StateMachine ==
    /\ [][pc' # pc =>
            \/ pc = "PENDING" /\ pc' \in {"REJECTED_EMPTY", "SCORING"}
            \/ pc = "SCORING" /\ pc' \in {"APPROVED", "REJECTED"}
            \/ (pc = "IDLE" \/ Terminal) /\ pc' = "PENDING"]_vars
    /\ (pc = "PENDING") ~> Terminal

----------------------------------------------------------------------------
(* Properties of the context snippet *)

\* The locations of all detections of the call.
AllLocations ==
    UNION {{call.ret[n].locations[l] : l \in DOMAIN call.ret[n].locations} :
              n \in DOMAIN call.ret}

\* text[max(0, o - 30) : min(L, o + n + 30)]
Window(loc) ==
    SubSeq(call.text, Max(0, loc.position - 30) + 1,
           Min(Len(call.text), loc.position + Len(loc.keyword) + 30))

IsBlank(c) == c \in {" ", "\t", "\n", "\r"}

\* C28 (as claimed): the context of a match at offset o of a keyword of
\* length n is exactly the slice of the text from max(0, o - 30) to
\* min(L, o + n + 30).
C28_ContextIsWindow ==
    call.op = "locations" => \A loc \in AllLocations : loc.context = Window(loc)

\* C28 (amended): the context is that slice without the whitespace at its
\* two ends: a part of the slice that neither starts nor ends with
\* whitespace, with only whitespace cut off before and after it.
C28_ContextIsStrippedWindow ==
    call.op = "locations" =>
        \A loc \in AllLocations :
            LET w == Window(loc)
                c == loc.context
            IN  /\ c # <<>>
                /\ ~IsBlank(c[1])
                /\ ~IsBlank(c[Len(c)])
                /\ \E a \in 0..Len(w) :
                      /\ a + Len(c) <= Len(w)
                      /\ c = SubSeq(w, a + 1, a + Len(c))
                      /\ \A j \in 1..a : IsBlank(w[j])
                      /\ \A j \in (a + Len(c) + 1)..Len(w) : IsBlank(w[j])

\* The window is cut 30 characters before the match and by the end of the
\* text after it, and a blank at its left edge is stripped.
C28_Witness ==
    /\ call.op = "locations"
    /\ \E loc \in AllLocations :
          /\ loc.position > 30
          /\ loc.position + Len(loc.keyword) + 30 > Len(call.text)
          /\ Len(call.text) > loc.position + Len(loc.keyword)
          /\ IsBlank(Window(loc)[1])
          /\ Len(loc.context) = Len(Window(loc)) - 1

----------------------------------------------------------------------------
(* End-to-end properties of run() *)

\* The detector, run at medium, finds a pattern of severity high in the
\* assembled document of this review.
HighPatternFound ==
    /\ locals # NoLocals
    /\ \E n \in DOMAIN locals.ai_patterns : locals.ai_patterns[n].severity = "high"

\* C29 (as claimed): when the detector finds a pattern of severity high in
\* the assembled document, the review that run() writes has
\* review_approved = false (at least not true when the rubric's flag is
\* null) and review_issues holds a high humanization issue for that
\* pattern, whatever the rubric judge returns and also when the rubric call
\* fails.
C29_EndToEndHardFail ==
    (HighPatternFound /\ ReviewReturned) =>
        /\ state["review_approved"] # PyTrue
        /\ (response.kind = "object" /\ Get(response.body, "approved", PyTrue) # PyNone)
              => state["review_approved"] = PyFalse
        /\ \A n \in DOMAIN locals.ai_patterns :
              locals.ai_patterns[n].severity = "high" =>
                  \E i \in DOMAIN Get(state, "review_issues", <<>>) :
                      LET issue == state["review_issues"][i]
                      IN  /\ IsDict(issue)
                          /\ Get(issue, "issue_type", "") = "humanization"
                          /\ Get(issue, "severity", "") = "high"
                          /\ issue["description"][1] = locals.ai_patterns[n].pattern_name

\* The key is absent before and after, or present with the same value.
Kept(k) ==
    /\ (k \in DOMAIN state) <=> (k \in DOMAIN state')
    /\ k \in DOMAIN state => state'[k] = state[k]

\* C30: a run() that takes the entry-guard path changes only
\* review_score, review_approved and review_issues: sections, outline,
\* error and a humanization_score or ai_patterns of an earlier review keep
\* their values; on the scoring path run() does not change sections,
\* outline or error.
C30_ShortCircuitFrame ==
    [][/\ (pc = "PENDING" /\ pc' = "REJECTED_EMPTY") =>
            /\ \A k \in (DOMAIN state \cup DOMAIN state')
                          \ {"review_score", "review_approved", "review_issues"} : Kept(k)
            /\ {"review_score", "review_approved", "review_issues"} \subseteq DOMAIN state'
       /\ (pc \in {"PENDING", "SCORING"} /\ pc' # "REJECTED_EMPTY") =>
            (Kept("sections") /\ Kept("outline") /\ Kept("error"))]_vars

\* A review short-circuited on an upstream error while the state still
\* held the sections and the humanization results of an earlier review.
C30_Witness ==
    /\ pc = "REJECTED_EMPTY"
    /\ Get(state, "error", "") # ""
    /\ Get(state, "sections", <<>>) # <<>>
    /\ Get(state, "ai_patterns", <<>>) # <<>>
    /\ Get(state, "humanization_score", 20) < 20
    /\ state["review_score"] = 0

====
